---- MODULE Spec2Model ----
(***************************************************************************)
(* Model of the fabric-cli chaincode tasks:                                *)
(*   invoketask.Task  - submits a transaction, waits for the commit event  *)
(*                      or the timeout, classifies the outcome and asks    *)
(*                      the executor for a delayed resubmission on a       *)
(*                      transient error;                                   *)
(*   querytask.Task   - submits one query and reports its result.          *)
(* The executor, the channel client and the event source are collaborators *)
(* and are modelled at their boundary.                                     *)
(***************************************************************************)
EXTENDS Integers, Sequences, FiniteSets, TLC

\* ---------------------------------------------------------------- bounds
MaxAttemptsCfg == 3      \* largest configured maxAttempts (0 and -1 are configured too)
MaxDelay == 1            \* largest configured resubmitDelay, in clock ticks
Timeout == 1             \* cliconfig.Config().Timeout(), in clock ticks
MaxQueryCalls == 3       \* how often the caller invokes the query task

MaxActs == MaxAttemptsCfg + 1          \* activations of Invoke per task
Acts == 1..MaxActs

Tasks == {"t1", "t2"}

\* ------------------------------------------------------ validation codes
\* pb.TxValidationCode: the codes doInvoke names, and two of the others.
OtherCodes == {"ENDORSEMENT_POLICY_FAILURE", "BAD_PAYLOAD"}
Codes == {"VALID", "DUPLICATE_TXID", "MVCC_READ_CONFLICT",
          "PHANTOM_READ_CONFLICT"} \cup OtherCodes

\* --------------------------------------------------------------- errors
\* An error value: its invokeerror code, the activation that created it and
\* the validation code it wraps ("-" when it wraps none).
NoErr == [kind |-> "nil", by |-> 0, code |-> "-"]
Errorf(kind, i, code) == [kind |-> kind, by |-> i, code |-> code]

VARIABLES
  created,        \* the tasks New has built and the caller has submitted
  maxAttempts,    \* Task.maxAttempts
  resubmitDelay,  \* Task.resubmitDelay
  attempt,        \* Task.attempt
  lastErr,        \* Task.lastErr
  txID,           \* Task.txID (0: not set)
  pc,             \* pc[t][i]: position of the i-th activation of t.Invoke
  err,            \* err[t][i]: what doInvoke returned to the i-th activation
  notifier,       \* notifier[t][i]: the channel made by the i-th activation
  timer,          \* timer[t][i]: ticks left of the time.After of the select
  chans,          \* chans[t]: number of channels made for t so far
  net,            \* net[t][c]: state of the commit event of channel c
  queue,          \* the executor's delayed tasks
  started,        \* started[t]: number of activations of t.Invoke so far
  submits,        \* submits[t]: number of ExecuteTxWithOpts calls of t
  outcomes,       \* outcomes[t]: how each attempt ended, in order
  resubmits,      \* resubmits[t]: the SubmitDelayed calls of t, in order
  callbacks,      \* callbacks[t]: the callback invocations of t, in order
  elapsed,        \* elapsed[t]: ticks since the first attempt of t started
  qpc,            \* position of the query task's Invoke
  qCalls,         \* number of calls of the query task's Invoke
  qResults,       \* what QueryWithOpts returned to each call, in order
  qSubmits,       \* number of QueryWithOpts calls
  qCallbacks      \* callback invocations of the query task, in order

taskVars == <<maxAttempts, resubmitDelay, attempt, lastErr, txID>>
actVars == <<pc, err, notifier, timer, chans, started>>
histVars == <<submits, outcomes, resubmits, callbacks, elapsed>>
queryVars == <<qpc, qCalls, qResults, qSubmits, qCallbacks>>
vars == <<created, taskVars, actVars, histVars, net, queue, queryVars>>

\* ------------------------------------------------------------------ New
\* invoketask.New: attempt starts at 1, lastErr and txID are zero values.
InitialAttempt == 1

NewTask(max, delay) ==
  [maxAttempts |-> max, resubmitDelay |-> delay,
   attempt |-> InitialAttempt, lastErr |-> NoErr, txID |-> 0]

\* The tasks cs have been built by New, task t with the (maxAttempts,
\* resubmitDelay) of one of the configurations cfgs, and handed to the
\* executor.
InitCfg(cs, cfgs) ==
  /\ created = cs
  /\ \E cfg \in cfgs :
       /\ \A t \in Tasks \ cs : cfg[t] = <<1, 0>>
       /\ maxAttempts = [t \in Tasks |-> NewTask(cfg[t][1], cfg[t][2]).maxAttempts]
       /\ resubmitDelay = [t \in Tasks |-> NewTask(cfg[t][1], cfg[t][2]).resubmitDelay]
       /\ attempt = [t \in Tasks |-> NewTask(cfg[t][1], cfg[t][2]).attempt]
       /\ lastErr = [t \in Tasks |-> NewTask(cfg[t][1], cfg[t][2]).lastErr]
       /\ txID = [t \in Tasks |-> NewTask(cfg[t][1], cfg[t][2]).txID]
  /\ pc = [t \in Tasks |-> [i \in Acts |-> "idle"]]
  /\ err = [t \in Tasks |-> [i \in Acts |-> NoErr]]
  /\ notifier = [t \in Tasks |-> [i \in Acts |-> 0]]
  /\ timer = [t \in Tasks |-> [i \in Acts |-> 0]]
  /\ chans = [t \in Tasks |-> 0]
  /\ net = [t \in Tasks |-> [c \in Acts |-> "none"]]
  /\ queue = {[task |-> t, id |-> 1, left |-> 0] : t \in cs}
  /\ started = [t \in Tasks |-> 0]
  /\ submits = [t \in Tasks |-> 0]
  /\ outcomes = [t \in Tasks |-> <<>>]
  /\ resubmits = [t \in Tasks |-> <<>>]
  /\ callbacks = [t \in Tasks |-> <<>>]
  /\ elapsed = [t \in Tasks |-> 0]
  /\ qpc = "idle"
  /\ qCalls = 0
  /\ qResults = <<>>
  /\ qSubmits = 0
  /\ qCallbacks = <<>>

\* New takes any maxAttempts: it does not check that it is at least 1.
InitTasks(cs) == InitCfg(cs, [Tasks -> ((-1)..MaxAttemptsCfg) \X (0..MaxDelay)])

Init == InitTasks({"t1"})

\* Two invoke tasks on the same executor: t1 may retry once, t2 makes a
\* single attempt.
TwoCfgs ==
  {cfg \in [Tasks -> {<<1, 0>>, <<2, 0>>, <<2, 1>>}] : cfg["t2"] = <<1, 0>>}

TwoInit == InitCfg(Tasks, TwoCfgs)

\* ------------------------------------------------------------- executor
\* The executor runs a delayed task once its delay has run out, on any of
\* its threads: a new activation of the task's Invoke starts.
Run(t) ==
  /\ started[t] < MaxActs
  /\ \E e \in queue :
       /\ e.task = t
       /\ e.left = 0
       /\ queue' = queue \ {e}
  /\ started' = [started EXCEPT ![t] = @ + 1]
  /\ pc' = [pc EXCEPT ![t][started[t] + 1] = "doInvoke"]
  /\ UNCHANGED <<created, taskVars, err, notifier, timer, chans, histVars,
                 net, queryVars>>

\* executor.SubmitDelayed(task, delay): the task is queued with its delay,
\* or the request fails and nothing is queued.
Enqueue(t, delay, ok) ==
  IF ok THEN queue \cup {[task |-> t, id |-> Len(resubmits[t]) + 2, left |-> delay]}
        ELSE queue

\* --------------------------------------------------------------- doInvoke
\* Classify with MVCC_READ_CONFLICT left out of the transient case.
ClassifyMvccPersistent(code) ==
  CASE code = "VALID" -> "nil"
    [] code \in {"DUPLICATE_TXID", "PHANTOM_READ_CONFLICT"} -> "TransientError"
    [] OTHER -> "PersistentError"

\* Classify with DUPLICATE_TXID taken as a success.
ClassifyDuplicateOk(code) ==
  CASE code \in {"VALID", "DUPLICATE_TXID"} -> "nil"
    [] code \in {"MVCC_READ_CONFLICT", "PHANTOM_READ_CONFLICT"} -> "TransientError"
    [] OTHER -> "PersistentError"

\* The classification of a validation code by the switch of doInvoke.
Classify(code) ==
  CASE code = "VALID" -> "nil"
    [] code \in {"DUPLICATE_TXID", "MVCC_READ_CONFLICT", "PHANTOM_READ_CONFLICT"}
         -> "TransientError"
    [] OTHER -> "PersistentError"

\* What doInvoke returns for a received validation code.
StatusErr(i, code) ==
  IF Classify(code) = "nil" THEN NoErr ELSE Errorf(Classify(code), i, code)

\* TimeoutErr with the timeout reported as a transient error.
TimeoutErrTransient(i) == Errorf("TransientError", i, "-")

\* What doInvoke returns when time.After fires first.
TimeoutErr(i) == Errorf("TimeoutOnCommit", i, "-")

\* SubmitErr with the submission failure reported as a persistent error.
SubmitErrPersistent(i) == Errorf("PersistentError", i, "-")

\* What doInvoke returns when ExecuteTxWithOpts fails.
SubmitErr(i) == Errorf("TransientError", i, "-")

Outcome(t, i, via, e) ==
  [act |-> i, no |-> attempt[t], via |-> via, kind |-> e.kind, code |-> e.code]

\* NewChan with one channel made once and used by every attempt.
NewChanShared(t) == 1

\* txStatusEvents := make(chan apitxn.ExecuteTxResponse): a channel no
\* earlier attempt has.
NewChan(t) == chans[t] + 1

\* doInvoke up to the select: make the channel, call ExecuteTxWithOpts.
ExecuteTx(t, i) ==
  /\ pc[t][i] = "doInvoke"
  /\ chans[t] < MaxActs
  /\ chans' = [chans EXCEPT ![t] = @ + 1]
  /\ notifier' = [notifier EXCEPT ![t][i] = NewChan(t)]
  /\ submits' = [submits EXCEPT ![t] = @ + 1]
  /\ \E ok \in BOOLEAN :
       IF ok
       THEN /\ txID' = [txID EXCEPT ![t] = submits[t] + 1]
            /\ net' = [net EXCEPT ![t][NewChan(t)] = "pending"]
            /\ timer' = [timer EXCEPT ![t][i] = Timeout]
            /\ pc' = [pc EXCEPT ![t][i] = "select"]
            /\ UNCHANGED <<err, outcomes>>
       ELSE /\ err' = [err EXCEPT ![t][i] = SubmitErr(i)]
            /\ outcomes' = [outcomes EXCEPT ![t] =
                              Append(@, Outcome(t, i, "submit", SubmitErr(i)))]
            /\ pc' = [pc EXCEPT ![t][i] = "decide"]
            /\ UNCHANGED <<txID, net, timer>>
  /\ UNCHANGED <<created, maxAttempts, resubmitDelay, attempt, lastErr,
                 started, resubmits, callbacks, elapsed, queue, queryVars>>

\* The event source sends the commit status of a submitted transaction on
\* the channel it was given; the channel is unbuffered, so the sender stays
\* blocked until the status is received.
Notify(t, c, code) ==
  /\ net[t][c] = "pending"
  /\ net' = [net EXCEPT ![t][c] = code]
  /\ UNCHANGED <<created, taskVars, actVars, histVars, queue, queryVars>>

\* select, case s := <-txStatusEvents
Receive(t, i) ==
  /\ pc[t][i] = "select"
  /\ net[t][notifier[t][i]] \in Codes
  /\ LET code == net[t][notifier[t][i]]
     IN /\ err' = [err EXCEPT ![t][i] = StatusErr(i, code)]
        /\ outcomes' = [outcomes EXCEPT ![t] =
              Append(@, [Outcome(t, i, "notify", StatusErr(i, code))
                           EXCEPT !.code = code])]
  /\ net' = [net EXCEPT ![t][notifier[t][i]] = "received"]
  /\ pc' = [pc EXCEPT ![t][i] = "decide"]
  /\ UNCHANGED <<created, taskVars, notifier, timer, chans, started, submits,
                 resubmits, callbacks, elapsed, queue, queryVars>>

\* select, case <-time.After(Timeout)
TimeoutFires(t, i) ==
  /\ pc[t][i] = "select"
  /\ timer[t][i] = 0
  /\ err' = [err EXCEPT ![t][i] = TimeoutErr(i)]
  /\ outcomes' = [outcomes EXCEPT ![t] =
                    Append(@, Outcome(t, i, "timeout", TimeoutErr(i)))]
  /\ pc' = [pc EXCEPT ![t][i] = "decide"]
  /\ UNCHANGED <<created, taskVars, notifier, timer, chans, started, submits,
                 resubmits, callbacks, elapsed, net, queue, queryVars>>

\* ----------------------------------------------------------------- Invoke
\* ShouldRetry comparing with <= instead of <.
ShouldRetryOffByOne(e, att, max) == e.kind = "TransientError" /\ att <= max

\* ShouldRetry retrying whatever the error code is.
ShouldRetryAnyError(e, att, max) == e.kind /= "nil" /\ att < max

\* ShouldRetry without the comparison with maxAttempts.
ShouldRetryNoLimit(e, att, max) == e.kind = "TransientError"

\* The retry decision of Invoke: case TransientError, attempt < maxAttempts.
ShouldRetry(e, att, max) == e.kind = "TransientError" /\ att < max

\* IncAttempt without the increment.
IncAttemptForgotten(att) == att

\* IncAttempt counting twice.
IncAttemptTwice(att) == att + 2

\* t.attempt++
IncAttempt(att) == att + 1

\* The delay Invoke passes to SubmitDelayed.
DelayArg(t) == resubmitDelay[t]

\* LastErrAfter with lastErr kept in one variable shared by all tasks.
LastErrAfterShared(t, e) == [u \in Tasks |-> IF e /= NoErr THEN e ELSE lastErr[u]]

\* LastErrAfter with the assignment moved before the nil check.
LastErrAfterReset(t, e) == [lastErr EXCEPT ![t] = e]

\* if err := t.doInvoke(); err != nil { t.lastErr = err ...
LastErrAfter(t, e) == [lastErr EXCEPT ![t] = IF e /= NoErr THEN e ELSE @]

Callback(t, i, e) ==
  Append(callbacks[t], [err |-> e, by |-> i, at |-> elapsed[t]])

\* Invoke after doInvoke has returned, up to the callback or up to the
\* SubmitDelayed call.
Decide(t, i) ==
  /\ pc[t][i] = "decide"
  /\ lastErr' = LastErrAfter(t, err[t][i])
  /\ LET e == err[t][i] IN
       IF e /= NoErr
       THEN /\ IF ShouldRetry(e, attempt[t], maxAttempts[t])
               THEN /\ attempt' = [attempt EXCEPT ![t] = IncAttempt(@)]
                    /\ pc' = [pc EXCEPT ![t][i] = "resubmit"]
                    /\ UNCHANGED callbacks
               ELSE /\ callbacks' = [callbacks EXCEPT ![t] = Callback(t, i, e)]
                    /\ pc' = [pc EXCEPT ![t][i] = "done"]
                    /\ UNCHANGED attempt
       ELSE /\ callbacks' = [callbacks EXCEPT ![t] = Callback(t, i, NoErr)]
            /\ pc' = [pc EXCEPT ![t][i] = "done"]
            /\ UNCHANGED attempt
  /\ UNCHANGED <<created, maxAttempts, resubmitDelay, txID, err, notifier,
                 timer, chans, started, submits, outcomes, resubmits, elapsed,
                 net, queue, queryVars>>

\* AfterSubmitDelayed reporting a scheduling error through the callback.
AfterSubmitDelayedReport(t, i, ok) ==
  IF ok THEN callbacks[t]
        ELSE Append(callbacks[t], [err |-> err[t][i], by |-> i, at |-> elapsed[t]])

\* AfterSubmitDelayed without the return: Invoke falls through to the callback.
AfterSubmitDelayedFallThrough(t, i, ok) ==
  Append(callbacks[t], [err |-> err[t][i], by |-> i, at |-> elapsed[t]])

\* What Invoke does to the callback once SubmitDelayed has returned: it only
\* logs a scheduling error.
AfterSubmitDelayed(t, i, ok) == callbacks[t]

\* Invoke calls t.executor.SubmitDelayed(t, t.resubmitDelay).
SubmitDelayed(t, i) ==
  /\ pc[t][i] = "resubmit"
  /\ \E ok \in BOOLEAN :
       /\ queue' = Enqueue(t, DelayArg(t), ok)
       /\ resubmits' = [resubmits EXCEPT ![t] =
            Append(@, [by |-> i, delay |-> DelayArg(t), ok |-> ok,
                       attempt |-> attempt[t], lastErr |-> lastErr[t],
                       txID |-> txID[t]])]
       /\ callbacks' = [callbacks EXCEPT ![t] = AfterSubmitDelayed(t, i, ok)]
  /\ pc' = [pc EXCEPT ![t][i] = "return"]
  /\ UNCHANGED <<created, taskVars, err, notifier, timer, chans, started,
                 submits, outcomes, elapsed, net, queryVars>>

\* FieldsAtReturn with the attempt counter incremented after SubmitDelayed.
FieldsAtReturnLateInc(t) == <<attempt[t] + 1, lastErr[t], txID[t]>>

\* The fields of the task when Invoke returns after SubmitDelayed.
FieldsAtReturn(t) == <<attempt[t], lastErr[t], txID[t]>>

\* Invoke returns after SubmitDelayed (logging its error, if any).
InvokeReturn(t, i) ==
  /\ pc[t][i] = "return"
  /\ pc' = [pc EXCEPT ![t][i] = "done"]
  /\ attempt' = [attempt EXCEPT ![t] = FieldsAtReturn(t)[1]]
  /\ lastErr' = [lastErr EXCEPT ![t] = FieldsAtReturn(t)[2]]
  /\ txID' = [txID EXCEPT ![t] = FieldsAtReturn(t)[3]]
  /\ UNCHANGED <<created, maxAttempts, resubmitDelay, err, notifier, timer,
                 chans, started, histVars, net, queue, queryVars>>

\* ------------------------------------------------------------------ time
Positive(n) == n > 0
Dec(n) == IF n > 0 THEN n - 1 ELSE 0

\* One clock tick: every running timer (a delay of the executor, a time.After
\* of a select) loses one tick.  Time is only tracked while a timer runs.
Tick ==
  /\ \/ \E e \in queue : Positive(e.left)
     \/ \E t \in Tasks, i \in Acts : Positive(timer[t][i])
  /\ queue' = {[e EXCEPT !.left = Dec(@)] : e \in queue}
  /\ timer' = [t \in Tasks |-> [i \in Acts |-> Dec(timer[t][i])]]
  /\ elapsed' = [t \in Tasks |->
                   IF started[t] > 0 /\ callbacks[t] = <<>>
                   THEN elapsed[t] + 1 ELSE elapsed[t]]
  /\ UNCHANGED <<created, taskVars, pc, err, notifier, chans, started,
                 submits, outcomes, resubmits, callbacks, net, queryVars>>

\* ------------------------------------------------------------- query task
QueryErrs == {"e1", "e2", "e3"}

\* The caller (or the executor) calls the query task's Invoke.
QueryStart ==
  /\ qpc = "idle"
  /\ qCalls < MaxQueryCalls
  /\ qCalls' = qCalls + 1
  /\ qpc' = "query"
  /\ UNCHANGED <<created, taskVars, actVars, histVars, net, queue, qResults,
                 qSubmits, qCallbacks>>

\* channelClient.QueryWithOpts returns an error or nil.
QueryWithOpts ==
  /\ qpc = "query"
  /\ qSubmits' = qSubmits + 1
  /\ \E e \in QueryErrs \cup {"nil"} : qResults' = Append(qResults, e)
  /\ qpc' = "callback"
  /\ UNCHANGED <<created, taskVars, actVars, histVars, net, queue, qCalls,
                 qCallbacks>>

\* QueryCallbackArg dropping the error.
QueryCallbackArgNil(e) == "nil"

\* The argument of the query task's callback.
QueryCallbackArg(e) == IF e /= "nil" THEN e ELSE "nil"

\* Invoke of the query task after QueryWithOpts: the callback.
QueryCallback ==
  /\ qpc = "callback"
  /\ qCallbacks' = Append(qCallbacks, [call |-> qCalls, err |-> QueryCallbackArg(qResults[Len(qResults)])])
  /\ qpc' = "idle"
  /\ UNCHANGED <<created, taskVars, actVars, histVars, net, queue, qCalls,
                 qResults, qSubmits>>

\* ------------------------------------------------------------------ Next
Next ==
  \/ \E t \in Tasks : Run(t)
  \/ \E t \in Tasks, i \in Acts : ExecuteTx(t, i)
  \/ \E t \in Tasks, c \in Acts, code \in Codes : Notify(t, c, code)
  \/ \E t \in Tasks, i \in Acts : Receive(t, i)
  \/ \E t \in Tasks, i \in Acts : TimeoutFires(t, i)
  \/ \E t \in Tasks, i \in Acts : Decide(t, i)
  \/ \E t \in Tasks, i \in Acts : SubmitDelayed(t, i)
  \/ \E t \in Tasks, i \in Acts : InvokeReturn(t, i)
  \/ Tick

Spec == Init /\ [][Next]_vars

TwoSpec == TwoInit /\ [][Next]_vars

\* The query task on its own: no invoke task has been created.
QueryInit == InitTasks({})

QueryNext ==
  \/ QueryStart
  \/ QueryWithOpts
  \/ QueryCallback

QuerySpec == QueryInit /\ [][QueryNext]_vars

\* ================================================================ claims
InProgress == {"doInvoke", "select", "decide", "resubmit"}

Queued(t) == {e \in queue : e.task = t}

\* The task has run and has nothing left to do: no activation is running and
\* no resubmission is pending.
Quiescent(t) ==
  /\ started[t] >= 1
  /\ Queued(t) = {}
  /\ \A i \in Acts : pc[t][i] \in {"idle", "done"}

AllScheduled(t) == \A r \in DOMAIN resubmits[t] : resubmits[t][r].ok

\* C1: the callback of an invoke task is invoked exactly once over the whole
\* retry sequence: never more than once, never zero times once the task has
\* no activation running and no resubmission pending, and never by an
\* attempt that requested a resubmission.
C1_CallbackExactlyOnce ==
  \A t \in created :
    /\ Len(callbacks[t]) <= 1
    /\ Quiescent(t) => Len(callbacks[t]) = 1
    /\ \A k \in DOMAIN callbacks[t], r \in DOMAIN resubmits[t] :
         callbacks[t][k].by /= resubmits[t][r].by

\* The case of C2: N-1 transient attempts, then VALID on attempt N, every
\* SubmitDelayed succeeding, and the N-th Invoke has returned.
C2_Case(t) ==
  LET N == maxAttempts[t]
      o == outcomes[t]
  IN /\ N >= 1
     /\ Len(o) = N
     /\ \A k \in 1..(N - 1) : o[k].kind = "TransientError"
     /\ o[N].via = "notify" /\ o[N].code = "VALID"
     /\ AllScheduled(t)
     /\ pc[t][o[N].act] = "done"

\* C2: after N-1 transient failures and a VALID N-th attempt the callback has
\* been invoked exactly once, with nil, Attempts() is N, and the N-1
\* resubmissions were each requested with resubmitDelay, so that the callback
\* fired at least (N-1) delays after the first attempt started.
C2_RetryThenSuccess ==
  \A t \in created :
    C2_Case(t) =>
      /\ Len(callbacks[t]) = 1
      /\ callbacks[t][1].err = NoErr
      /\ attempt[t] = maxAttempts[t]
      /\ Len(resubmits[t]) = maxAttempts[t] - 1
      /\ \A r \in DOMAIN resubmits[t] : resubmits[t][r].delay = resubmitDelay[t]
      /\ callbacks[t][1].at >= (maxAttempts[t] - 1) * resubmitDelay[t]

C2_Witness ==
  \E t \in created :
    /\ C2_Case(t)
    /\ maxAttempts[t] = 3
    /\ resubmitDelay[t] >= 1
    /\ outcomes[t][1].code = "MVCC_READ_CONFLICT"
    /\ outcomes[t][2].code = "MVCC_READ_CONFLICT"

\* The case of C3: the first N attempts all ended in a TransientError and
\* every SubmitDelayed succeeded.
C3_Case(t) ==
  LET N == maxAttempts[t]
      o == outcomes[t]
  IN /\ N >= 1
     /\ Len(o) >= N
     /\ \A k \in 1..N : o[k].kind = "TransientError"
     /\ AllScheduled(t)

\* C3: after N consecutive transient failures exactly N attempts were made,
\* no further attempt is scheduled, Attempts() is N, and once the N-th Invoke
\* has returned the callback has been invoked exactly once, with the
\* TransientError of the N-th attempt.
C3_RetriesExhausted ==
  \A t \in created :
    C3_Case(t) =>
      LET N == maxAttempts[t]
          last == outcomes[t][N]
      IN /\ Len(outcomes[t]) = N
         /\ started[t] = N
         /\ submits[t] = N
         /\ Len(resubmits[t]) = N - 1
         /\ Queued(t) = {}
         /\ attempt[t] = N
         /\ pc[t][last.act] \in {"decide", "done"}
         /\ pc[t][last.act] = "decide" => callbacks[t] = <<>>
         /\ pc[t][last.act] = "done" =>
              /\ Len(callbacks[t]) = 1
              /\ callbacks[t][1].by = last.act
              /\ callbacks[t][1].err = err[t][last.act]
              /\ callbacks[t][1].err.kind = "TransientError"
              /\ callbacks[t][1].err.by = last.act
              /\ callbacks[t][1].err.code = last.code

C3_Witness ==
  \E t \in created :
    /\ C3_Case(t)
    /\ maxAttempts[t] = 3
    /\ Len(callbacks[t]) = 1

\* What holds of an attempt (outcome o of task t) that ended in a terminal
\* error: it requested no resubmission, the attempt counter is the one the
\* attempt started with, nothing further was scheduled or started, and the
\* callback is invoked once, with the attempt's error, when Invoke returns.
Terminal(t, o) ==
  /\ \A r \in DOMAIN resubmits[t] : resubmits[t][r].by /= o.act
  /\ attempt[t] = o.no
  /\ Queued(t) = {}
  /\ started[t] = o.act
  /\ pc[t][o.act] \in {"decide", "done"}
  /\ pc[t][o.act] = "decide" => callbacks[t] = <<>>
  /\ pc[t][o.act] = "done" =>
       /\ Len(callbacks[t]) = 1
       /\ callbacks[t][1].by = o.act
       /\ callbacks[t][1].err = err[t][o.act]
       /\ callbacks[t][1].err.kind = o.kind
       /\ callbacks[t][1].err.by = o.act

\* C4: an attempt that ends with a PersistentError is never retried: no
\* SubmitDelayed, the attempt counter unchanged, the callback invoked once
\* with that error; on the first attempt Attempts() stays 1.
C4_PersistentNotRetried ==
  \A t \in created : \A k \in DOMAIN outcomes[t] :
    LET o == outcomes[t][k] IN
      o.kind = "PersistentError" =>
        /\ Terminal(t, o)
        /\ k = 1 => attempt[t] = 1

C4_Witness ==
  \E t \in created :
    /\ maxAttempts[t] = 3
    /\ Len(outcomes[t]) = 2
    /\ outcomes[t][2].kind = "PersistentError"
    /\ Len(callbacks[t]) = 1

\* C5: an attempt whose submission succeeded and whose timeout fired with no
\* notification received is classified TimeoutOnCommit, requests no
\* resubmission whatever maxAttempts and the attempt number are, and the
\* callback is invoked once, with the TimeoutOnCommit error.
C5_TimeoutTerminal ==
  \A t \in created : \A k \in DOMAIN outcomes[t] :
    LET o == outcomes[t][k] IN
      o.via = "timeout" =>
        /\ o.kind = "TimeoutOnCommit"
        /\ Terminal(t, o)
        /\ (maxAttempts[t] = 1 /\ k = 1) => attempt[t] = 1

C5_Witness ==
  \E t \in created :
    /\ maxAttempts[t] = 3
    /\ Len(outcomes[t]) = 1
    /\ outcomes[t][1].via = "timeout"
    /\ Len(callbacks[t]) = 1
    /\ callbacks[t][1].err.kind = "TimeoutOnCommit"

\* C6: a received VALID makes doInvoke return nil; DUPLICATE_TXID,
\* MVCC_READ_CONFLICT and PHANTOM_READ_CONFLICT make it return a
\* TransientError; every other code a PersistentError; on every attempt
\* number.  Every attempt ends in one of the four outcomes.
C6_Classification ==
  \A t \in created : \A k \in DOMAIN outcomes[t] :
    LET o == outcomes[t][k] IN
      /\ o.kind \in {"nil", "TransientError", "PersistentError", "TimeoutOnCommit"}
      /\ o.kind = err[t][o.act].kind
      /\ o.via = "notify" =>
           /\ o.code = "VALID" => o.kind = "nil" /\ err[t][o.act] = NoErr
           /\ o.code \in {"DUPLICATE_TXID", "MVCC_READ_CONFLICT",
                          "PHANTOM_READ_CONFLICT"} => o.kind = "TransientError"
           /\ o.code \notin {"VALID", "DUPLICATE_TXID", "MVCC_READ_CONFLICT",
                             "PHANTOM_READ_CONFLICT"} => o.kind = "PersistentError"

C6_Witness ==
  \E t \in created :
    /\ Len(outcomes[t]) = 3
    /\ outcomes[t][1].code = "DUPLICATE_TXID"
    /\ outcomes[t][2].code = "MVCC_READ_CONFLICT"
    /\ outcomes[t][3].code = "BAD_PAYLOAD"
    /\ outcomes[t][3].kind = "PersistentError"

\* C7: once the callback has fired, Attempts() is the number of attempts
\* made, i.e. the number of ExecuteTxWithOpts calls of the task.
C7_AttemptsCountsSubmissions ==
  \A t \in created :
    callbacks[t] /= <<>> =>
      /\ attempt[t] = submits[t]
      /\ attempt[t] = Len(outcomes[t])

C7_Witness ==
  \E t \in created :
    /\ callbacks[t] /= <<>>
    /\ submits[t] = 3
    /\ Quiescent(t)

\* C8: once a SubmitDelayed call has returned an error the task is orphaned:
\* no callback is ever invoked (so never with nil), nothing is queued and no
\* further attempt is started or submitted.
C8_Orphaned ==
  \A t \in created : \A r \in DOMAIN resubmits[t] :
    ~resubmits[t][r].ok =>
      /\ callbacks[t] = <<>>
      /\ Queued(t) = {}
      /\ r = Len(resubmits[t])
      /\ started[t] = resubmits[t][r].by
      /\ submits[t] = resubmits[t][r].by
      /\ \A i \in Acts : i > resubmits[t][r].by => pc[t][i] = "idle"
      /\ \A i \in Acts : i < resubmits[t][r].by => pc[t][i] \in {"return", "done"}
      /\ pc[t][resubmits[t][r].by] \in {"return", "done"}

C8_Witness ==
  \E t \in created :
    /\ Len(resubmits[t]) = 2
    /\ ~resubmits[t][2].ok
    /\ Quiescent(t)

\* C9: every call of the query task's Invoke makes exactly one QueryWithOpts
\* call and then invokes the callback exactly once, with the error
\* QueryWithOpts returned or with nil when it returned none; it never retries
\* and never touches the executor.
C9_QueryOnce ==
  /\ qSubmits = qCalls - (IF qpc = "query" THEN 1 ELSE 0)
  /\ Len(qResults) = qSubmits
  /\ Len(qCallbacks) = qCalls - (IF qpc \in {"query", "callback"} THEN 1 ELSE 0)
  /\ \A k \in DOMAIN qCallbacks :
       /\ qCallbacks[k].call = k
       /\ qCallbacks[k].err = qResults[k]
  /\ queue = {}
  /\ \A t \in Tasks : resubmits[t] = <<>> /\ started[t] = 0

C9_Witness ==
  /\ Len(qCallbacks) = 2
  /\ qCallbacks[1].err = "e2"
  /\ qCallbacks[2].err = "nil"
  /\ qpc = "idle"

\* C10, the state part: at most one attempt of a task is in progress or
\* queued at any time, and every SubmitDelayed call was made by an attempt
\* that had ended in a TransientError.
C10_Sequential ==
  \A t \in created :
    /\ Cardinality({i \in Acts : pc[t][i] \in InProgress})
         + Cardinality(Queued(t)) <= 1
    /\ \A r \in DOMAIN resubmits[t] :
         \E k \in DOMAIN outcomes[t] :
           /\ outcomes[t][k].act = resubmits[t][r].by
           /\ outcomes[t][k].kind = "TransientError"

\* C10, the step part: the SubmitDelayed call and everything Invoke does
\* after it leave the task's attempt, lastErr and txID alone.
C10_NoWriteAfterSubmit ==
  \A t \in Tasks :
    (\E i \in Acts : pc[t][i] \in {"resubmit", "return"} /\ pc'[t][i] /= pc[t][i])
      => /\ attempt'[t] = attempt[t]
         /\ lastErr'[t] = lastErr[t]
         /\ txID'[t] = txID[t]

\* C10: attempts of one task are strictly sequential under every executor
\* interleaving: attempt k+1 is scheduled only after attempt k ended with a
\* transient classification, attempt k writes attempt, lastErr and txID only
\* before the SubmitDelayed call, and no two attempts are in progress at once.
C10_StrictlySequential == [](C10_Sequential) /\ [][C10_NoWriteAfterSubmit]_vars

\* Attempt 2 runs on another thread while the Invoke of attempt 1 has not
\* returned from SubmitDelayed yet.
C10_Witness ==
  \E t \in created :
    /\ resubmitDelay[t] = 0
    /\ pc[t][1] = "return"
    /\ pc[t][2] = "select"

\* C11, the state part: an attempt whose ExecuteTxWithOpts failed ended in a
\* TransientError, its channel was never registered and never received
\* from, its timeout was never started, and while only such attempts were
\* made the transaction id is not set.
C11_SubmitFailureState ==
  \A t \in created :
    /\ \A k \in DOMAIN outcomes[t] :
         LET o == outcomes[t][k] IN
           o.via = "submit" =>
             /\ o.kind = "TransientError"
             /\ err[t][o.act].kind = "TransientError"
             /\ net[t][notifier[t][o.act]] = "none"
             /\ timer[t][o.act] = 0
             /\ \A j \in DOMAIN outcomes[t] : outcomes[t][j].act = o.act => j = k
    /\ ( /\ \A k \in DOMAIN outcomes[t] : outcomes[t][k].via = "submit"
         /\ \A i \in Acts : pc[t][i] /= "select" ) => txID[t] = 0

\* C11, the step part: the step in which ExecuteTxWithOpts fails goes
\* straight to the retry decision and leaves the transaction id, the timers
\* and the channels alone.
C11_SubmitFailureStep ==
  \A t \in Tasks, i \in Acts :
    (pc[t][i] = "doInvoke" /\ pc'[t][i] /= "doInvoke") =>
      \/ pc'[t][i] = "select"
      \/ /\ pc'[t][i] = "decide"
         /\ err'[t][i].kind = "TransientError"
         /\ txID' = txID
         /\ timer' = timer
         /\ net' = net

\* C11: a failed submission is classified TransientError and goes to the
\* retry decision without waiting: no receive from the notification channel,
\* no commit timeout, no transaction id set by this attempt.
C11_SubmitFailure == [](C11_SubmitFailureState) /\ [][C11_SubmitFailureStep]_vars

C11_Witness ==
  \E t \in created :
    /\ Len(outcomes[t]) = 2
    /\ outcomes[t][1].via = "notify"
    /\ outcomes[t][2].via = "submit"
    /\ txID[t] = 1
    /\ pc[t][2] = "resubmit"

ResubmitsBy(t, a) == {r \in DOMAIN resubmits[t] : resubmits[t][r].by = a}

CallbacksBy(t, a) == {c \in DOMAIN callbacks[t] : callbacks[t][c].by = a}

\* The condition under which the claim says a resubmission is requested.
C12_Retry(t, o) == o.kind = "TransientError" /\ o.no < maxAttempts[t]

\* C12: a resubmission is requested iff the attempt ended in a
\* TransientError with attempt < maxAttempts; then the counter is incremented
\* by one, SubmitDelayed is called once, for this task and with
\* resubmitDelay, and no callback is invoked by this Invoke.  Otherwise the
\* counter is unchanged and the callback is invoked with the attempt's result.
C12_RetryDecision ==
  \A t \in created : \A k \in DOMAIN outcomes[t] :
    LET o == outcomes[t][k]
        p == pc[t][o.act]
    IN /\ p \in {"decide", "resubmit", "return", "done"}
       /\ p = "decide" =>
            /\ ResubmitsBy(t, o.act) = {}
            /\ CallbacksBy(t, o.act) = {}
            /\ attempt[t] = o.no
       /\ p = "resubmit" =>
            /\ C12_Retry(t, o)
            /\ ResubmitsBy(t, o.act) = {}
            /\ CallbacksBy(t, o.act) = {}
            /\ attempt[t] = o.no + 1
       /\ p \in {"return", "done"} =>
            /\ C12_Retry(t, o) <=> ResubmitsBy(t, o.act) /= {}
            /\ C12_Retry(t, o) =>
                 /\ Cardinality(ResubmitsBy(t, o.act)) = 1
                 /\ CallbacksBy(t, o.act) = {}
                 /\ \A r \in ResubmitsBy(t, o.act) :
                      /\ resubmits[t][r].delay = resubmitDelay[t]
                      /\ resubmits[t][r].attempt = o.no + 1
                      /\ resubmits[t][r].ok =>
                           \/ \E e \in queue : e.task = t
                           \/ started[t] > o.act
            /\ ~C12_Retry(t, o) =>
                 /\ Cardinality(CallbacksBy(t, o.act)) = 1
                 /\ \A c \in CallbacksBy(t, o.act) :
                      callbacks[t][c].err = err[t][o.act]
                 /\ attempt[t] = o.no

\* A transient failure on the last allowed attempt, after two resubmissions.
C12_Witness ==
  \E t \in created :
    /\ maxAttempts[t] = 3
    /\ Len(outcomes[t]) = 3
    /\ outcomes[t][3].kind = "TransientError"
    /\ Len(resubmits[t]) = 2
    /\ CallbacksBy(t, 3) /= {}
    /\ attempt[t] = 3

\* C13, one step: once the callback of a task has fired, no step makes a
\* submission, starts or schedules an attempt, invokes the callback or
\* changes attempt, lastErr or txID; all that is left to happen is that an
\* earlier Invoke returns from its SubmitDelayed call.
C13_Step ==
  \A t \in created :
    callbacks[t] /= <<>> =>
      /\ attempt'[t] = attempt[t]
      /\ lastErr'[t] = lastErr[t]
      /\ txID'[t] = txID[t]
      /\ submits'[t] = submits[t]
      /\ outcomes'[t] = outcomes[t]
      /\ resubmits'[t] = resubmits[t]
      /\ callbacks'[t] = callbacks[t]
      /\ started'[t] = started[t]
      /\ chans'[t] = chans[t]
      /\ {e \in queue : e.task = t} = {}
      /\ {e \in queue' : e.task = t} = {}
      /\ \A i \in Acts :
           \/ pc'[t][i] = pc[t][i]
           \/ pc[t][i] = "return" /\ pc'[t][i] = "done"

\* C13: after the callback has fired the task takes no further step.
C13_CallbackIsLast == [][C13_Step]_vars

\* The callback has fired in attempt 2 while the Invoke of attempt 1 has not
\* yet returned from SubmitDelayed.
C13_Witness ==
  \E t \in created :
    /\ callbacks[t] /= <<>>
    /\ callbacks[t][1].by = 2
    /\ pc[t][1] = "return"

\* The attempts that passed channel c to their submission.
Owners(t, c) == {i \in Acts : notifier[t][i] = c}

\* C14, the state part: every attempt that reached its submission made one
\* channel, no two attempts have the same channel, and a notification is
\* only ever sent on, and received from, a channel with a single owner.
C14_FreshChannelState ==
  \A t \in created :
    /\ \A i \in Acts : (pc[t][i] \notin {"idle", "doInvoke"}) <=> notifier[t][i] /= 0
    /\ \A i, j \in Acts :
         (i /= j /\ notifier[t][i] /= 0) => notifier[t][i] /= notifier[t][j]
    /\ chans[t] = submits[t]
    /\ \A c \in Acts : net[t][c] /= "none" => Cardinality(Owners(t, c)) = 1
    /\ \A k \in DOMAIN outcomes[t] :
         LET o == outcomes[t][k] IN
           o.via = "notify" =>
             /\ Owners(t, notifier[t][o.act]) = {o.act}
             /\ net[t][notifier[t][o.act]] = "received"

\* C14, the step part: an attempt that leaves its select consumes at most
\* the notification of its own channel, and what it classifies is the code
\* that was sent on that channel.
C14_FreshChannelStep ==
  \A t \in Tasks, i \in Acts :
    (pc[t][i] = "select" /\ pc'[t][i] /= "select") =>
      /\ \A c \in Acts : c /= notifier[t][i] => net'[t][c] = net[t][c]
      /\ outcomes'[t][Len(outcomes'[t])].act = i
      /\ outcomes'[t][Len(outcomes'[t])].via = "notify" =>
           outcomes'[t][Len(outcomes'[t])].code = net[t][notifier[t][i]]

\* C14: each attempt makes its own notification channel; a channel is never
\* reused, so a notification sent for one attempt is never received and
\* classified by another.
C14_FreshChannel == [](C14_FreshChannelState) /\ [][C14_FreshChannelStep]_vars

C14_Witness ==
  \E t \in created :
    /\ notifier[t][1] = 1 /\ notifier[t][2] = 2 /\ notifier[t][3] = 3
    /\ net[t][1] = "received"
    /\ net[t][2] = "received"
    /\ net[t][3] = "MVCC_READ_CONFLICT"
    /\ pc[t][3] = "select"

\* C15: whichever branch of the select fires first, the other branch's
\* resource does not leak: no sender is left blocked on the channel of an
\* attempt that has left its select, and the timer of an attempt that took
\* the notification branch never gives that attempt a second outcome.
C15_NoLeak ==
  \A t \in created : \A i \in Acts :
    /\ (pc[t][i] \in {"decide", "resubmit", "return", "done"} /\ notifier[t][i] /= 0)
         => net[t][notifier[t][i]] \notin Codes
    /\ Cardinality({k \in DOMAIN outcomes[t] : outcomes[t][k].act = i}) <= 1

\* ------------------------------------------------------------- fairness
\* A fair executor runs every queued task whose delay is over; a thread that
\* runs Invoke keeps running; the submission call returns; the clock
\* advances, and a timeout that is due fires unless the notification is
\* taken first.  Whether and when a notification is sent is up to the network.
Progress ==
  \/ Tick
  \/ \E t \in Tasks : Run(t)
  \/ \E t \in Tasks, i \in Acts :
       \/ ExecuteTx(t, i)
       \/ TimeoutFires(t, i)
       \/ Decide(t, i)
       \/ SubmitDelayed(t, i)
       \/ InvokeReturn(t, i)

Fairness == WF_vars(Progress)

FairSpec == Init /\ [][Next]_vars /\ Fairness

AttemptLimit(t) == IF maxAttempts[t] <= 1 THEN 1 ELSE maxAttempts[t]

\* Every created task has invoked its callback (or a SubmitDelayed of it has
\* failed), and no attempt is waiting in its select.
C16_Finished ==
  \A t \in created :
    /\ callbacks[t] /= <<>> \/ ~AllScheduled(t)
    /\ \A i \in Acts : pc[t][i] /= "select"

C16_AttemptsBounded ==
  \A t \in created :
    started[t] <= AttemptLimit(t) /\ submits[t] <= AttemptLimit(t)

\* C16: under a fair executor, with every SubmitDelayed succeeding, every
\* invoke task eventually invokes its callback; the wait of every attempt
\* ends; and the task makes at most maxAttempts attempts (one when
\* maxAttempts <= 1).
C16_EventuallyCallback == <>(C16_Finished) /\ [](C16_AttemptsBounded)

C16_Witness ==
  \E t \in created :
    /\ maxAttempts[t] = 3
    /\ started[t] = 3
    /\ AllScheduled(t)
    /\ callbacks[t] /= <<>>
    /\ outcomes[t][3].via = "timeout"

\* What a task owns: its fields, its activations and its history.
TaskState(t) ==
  <<attempt[t], lastErr[t], txID[t], callbacks[t], pc[t], err[t],
    notifier[t], outcomes[t], resubmits[t], submits[t], started[t], net[t]>>

\* C17, the step part: a step that changes one task changes no other task.
C17_Frame ==
  \A t, u \in Tasks :
    (t /= u /\ TaskState(t)' /= TaskState(t)) => TaskState(u)' = TaskState(u)

\* C17, the state part: what a task does is determined by its own
\* configuration and its own attempt outcomes, as when it runs alone: attempt
\* k is the k-th activation, every attempt but the last ended in a
\* TransientError below maxAttempts, and the callback reports the result of
\* the last attempt, which was not to be retried.
C17_AsAlone ==
  \A t \in created :
    LET o == outcomes[t]
        n == Len(outcomes[t])
    IN /\ \A k \in DOMAIN o : o[k].no = k /\ o[k].act = k
       /\ \A k \in 1..(n - 1) :
            o[k].kind = "TransientError" /\ k < maxAttempts[t]
       /\ Len(callbacks[t]) <= 1
       /\ callbacks[t] /= <<>> =>
            /\ callbacks[t][1].by = n
            /\ callbacks[t][1].err.kind = o[n].kind
            /\ callbacks[t][1].err.by \in {0, n}
            /\ ~(o[n].kind = "TransientError" /\ n < maxAttempts[t])
            /\ attempt[t] = n
            /\ lastErr[t].by \in {0, n, n - 1}
            /\ lastErr[t].by = n <=> o[n].kind /= "nil"

\* C17: invoker instances have independent state under every interleaving
\* of two tasks on the executor.
C17_Independent == [](C17_AsAlone) /\ [][C17_Frame]_vars

\* Both tasks are in the middle of an attempt, and both have failed before
\* or are failing with different errors.
C17_Witness ==
  /\ created = Tasks
  /\ pc["t1"][2] = "select"
  /\ pc["t2"][1] = "decide"
  /\ lastErr["t1"].kind = "TransientError"
  /\ err["t2"][1].kind = "PersistentError"
  /\ lastErr["t2"] = NoErr

\* C18, the state part: Attempts() is at least 1, at most maxAttempts when
\* maxAttempts >= 1, and stays 1 with a single attempt when maxAttempts <= 0.
C18_AttemptRange ==
  \A t \in created :
    /\ attempt[t] >= 1
    /\ started[t] = 0 => attempt[t] = 1
    /\ maxAttempts[t] >= 1 => attempt[t] <= maxAttempts[t]
    /\ maxAttempts[t] <= 0 =>
         /\ attempt[t] = 1
         /\ started[t] <= 1
         /\ submits[t] <= 1
         /\ resubmits[t] = <<>>
         /\ Quiescent(t) => Len(callbacks[t]) = 1 /\ Len(outcomes[t]) = 1

\* C18, the step part: the counter changes only by +1, in the step in which
\* Invoke decides to request a resubmission.
C18_AttemptStep ==
  \A t \in Tasks :
    \/ attempt'[t] = attempt[t]
    \/ /\ attempt'[t] = attempt[t] + 1
       /\ \E i \in Acts : pc[t][i] = "decide" /\ pc'[t][i] = "resubmit"

\* C18: the attempt counter starts at 1, never decreases, grows by one per
\* resubmission request and stays within 1..maxAttempts; with
\* maxAttempts <= 0 one attempt is made and the counter stays 1.
C18_AttemptCounter == [](C18_AttemptRange) /\ [][C18_AttemptStep]_vars

\* A task built with a negative maxAttempts has failed transiently once and
\* has reported that error.
C18_Witness ==
  \E t \in created :
    /\ maxAttempts[t] < 0
    /\ Quiescent(t)
    /\ outcomes[t][1].kind = "TransientError"
    /\ callbacks[t][1].err.kind = "TransientError"
    /\ attempt[t] = 1

\* The failed attempts of t whose error Invoke has taken note of.
FailedAttempts(t) ==
  {k \in DOMAIN outcomes[t] :
     outcomes[t][k].kind /= "nil" /\ pc[t][outcomes[t][k].act] /= "decide"}

LastFailed(t) ==
  CHOOSE m \in FailedAttempts(t) : \A j \in FailedAttempts(t) : j <= m

\* C19: LastError() is the error of the most recent failed attempt, nil
\* while none has failed, and a successful attempt does not reset it: a
\* callback with an error e leaves LastError() = e, a callback with nil after
\* a transient failure leaves LastError() at that failure, and LastError()
\* is nil after completion only if the first attempt succeeded.
C19_LastError ==
  \A t \in created :
    /\ FailedAttempts(t) = {} => lastErr[t] = NoErr
    /\ FailedAttempts(t) /= {} =>
         LET o == outcomes[t][LastFailed(t)] IN
           /\ lastErr[t] = err[t][o.act]
           /\ lastErr[t].kind = o.kind
           /\ lastErr[t].by = o.act
    /\ callbacks[t] /= <<>> =>
         LET cb == callbacks[t][1]
             n == Len(outcomes[t])
         IN /\ cb.err /= NoErr => lastErr[t] = cb.err
            /\ (cb.err = NoErr /\ n >= 2) =>
                 /\ lastErr[t].kind = "TransientError"
                 /\ lastErr[t].by = outcomes[t][n - 1].act
                 /\ lastErr[t].code = outcomes[t][n - 1].code
            /\ lastErr[t] = NoErr <=> (n = 1 /\ outcomes[t][1].kind = "nil")

\* Success on the third attempt: LastError() is still the error of the second.
C19_Witness ==
  \E t \in created :
    /\ callbacks[t] /= <<>>
    /\ callbacks[t][1].err = NoErr
    /\ Len(outcomes[t]) = 3
    /\ lastErr[t].by = 2
    /\ lastErr[t].code = "PHANTOM_READ_CONFLICT"

\* C20: the callback is invoked with nil only if the last attempt's
\* submission succeeded and that attempt received VALID on its own channel,
\* its timeout branch not taken.  A TimeoutOnCommit callback says nothing
\* about the commit: the status of that transaction was not received, and
\* the network may still commit it (or already has).
C20_NilOnlyIfValid ==
  \A t \in created :
    callbacks[t] /= <<>> =>
      LET cb == callbacks[t][1]
          o == outcomes[t][Len(outcomes[t])]
      IN /\ o.act = cb.by
         /\ cb.err = NoErr =>
              /\ o.via = "notify"
              /\ o.code = "VALID"
              /\ notifier[t][o.act] /= 0
              /\ net[t][notifier[t][o.act]] = "received"
              /\ Cardinality({k \in DOMAIN outcomes[t] : outcomes[t][k].act = o.act}) = 1
         /\ cb.err.kind = "TimeoutOnCommit" =>
              /\ o.via = "timeout"
              /\ net[t][notifier[t][o.act]] \in Codes \cup {"pending"}

\* The callback has reported TimeoutOnCommit and the network can now commit
\* the same transaction as VALID.
C20_Witness ==
  \E t \in created :
    /\ callbacks[t] /= <<>>
    /\ callbacks[t][1].err.kind = "TimeoutOnCommit"
    /\ ENABLED Notify(t, notifier[t][callbacks[t][1].by], "VALID")

====
